---- MODULE Spec2Model ----
(***************************************************************************)
(* A model of mediatype's borrowed MediaType (src/media_type.rs): the      *)
(* aggregate of ty / subty / suffix Names and copy-on-write parameter      *)
(* storage, with its constructors, the ReadParams / WriteParams            *)
(* operations, Display, and the Eq / Ord / Hash implementations.           *)
(*                                                                         *)
(* Text is a sequence of one-character strings.  A Name is the text it     *)
(* was built from.  A Value is its decoded content together with the tag   *)
(* telling whether its original text was a quoted string.  The modules     *)
(* name, value, params and parse are not part of the source tree at hand;  *)
(* their operators below follow the written specification.                 *)
(***************************************************************************)
EXTENDS Integers, Sequences, FiniteSets, TLC

\* ------------------------------------------------------------------ text

\* ASCII codes of the characters the model's texts are written in.
Code ==
    ("a" :> 97) @@ ("b" :> 98) @@ ("c" :> 99) @@ ("j" :> 106) @@ ("k" :> 107)
    @@ ("A" :> 65) @@ ("B" :> 66) @@ ("C" :> 67) @@ ("J" :> 74) @@ ("K" :> 75)
    @@ ("1" :> 49) @@ ("2" :> 50)
    @@ ("+" :> 43) @@ ("-" :> 45) @@ ("/" :> 47) @@ (";" :> 59) @@ ("=" :> 61)
    @@ (" " :> 32) @@ ("\"" :> 34) @@ ("\\" :> 92)

Chars == DOMAIN Code

\* u8::to_ascii_lowercase
Lower(c) ==
    IF Code[c] >= 65 /\ Code[c] <= 90
    THEN CHOOSE d \in Chars : Code[d] = Code[c] + 32
    ELSE c

LowerStr(s) == [i \in 1..Len(s) |-> Lower(s[i])]

IsAlnum(c) ==
    \/ Code[c] >= 97 /\ Code[c] <= 122
    \/ Code[c] >= 65 /\ Code[c] <= 90
    \/ Code[c] >= 48 /\ Code[c] <= 57

\* RFC 6838 restricted-name-chars (those of them in Chars).
IsRestrictedChar(c) == IsAlnum(c) \/ c \in {"+", "-"}

\* A token is a run of token-safe characters.
IsTokenChar(c) == IsRestrictedChar(c)

\* RFC 6838 caps a restricted name at 127 characters.
NameMaxLen == 127

\* Name validation: non-empty, bounded, first character alphanumeric, all
\* characters restricted-name characters.
IsRestrictedName(s) ==
    /\ Len(s) >= 1
    /\ Len(s) <= NameMaxLen
    /\ IsAlnum(s[1])
    /\ \A i \in 1..Len(s) : IsRestrictedChar(s[i])

IsToken(s) == Len(s) >= 1 /\ \A i \in 1..Len(s) : IsTokenChar(s[i])

\* Ordering values.
Less == -1
Equal == 0
Greater == 1

\* Lexicographic comparison of two byte strings (<[u8] as Ord>::cmp).
RECURSIVE CmpBytes(_, _)
CmpBytes(s, t) ==
    IF s = <<>> /\ t = <<>> THEN Equal
    ELSE IF s = <<>> THEN Less
    ELSE IF t = <<>> THEN Greater
    ELSE IF Code[Head(s)] < Code[Head(t)] THEN Less
    ELSE IF Code[Head(s)] > Code[Head(t)] THEN Greater
    ELSE CmpBytes(Tail(s), Tail(t))

\* ------------------------------------------------------------------ Name

\* Name equality, ordering and hashing fold ASCII case.
NameEq(a, b) == LowerStr(a) = LowerStr(b)
NameCmp(a, b) == CmpBytes(LowerStr(a), LowerStr(b))
NameHash(a) == <<LowerStr(a)>>
\* Display emits the original bytes.
NameDisplay(a) == a

\* ----------------------------------------------------------------- Value

\* quoted-string text of a content: " and \ are backslash-escaped.
RECURSIVE Escape(_)
Escape(s) ==
    IF s = <<>> THEN <<>>
    ELSE (IF Head(s) \in {"\"", "\\"} THEN <<"\\", Head(s)>> ELSE <<Head(s)>>)
         \o Escape(Tail(s))

Quote(s) == <<"\"">> \o Escape(s) \o <<"\"">>

\* The content of the inside of a quoted-string: \c stands for c.
RECURSIVE Unescape(_)
Unescape(s) ==
    IF s = <<>> THEN <<>>
    ELSE IF Head(s) = "\\" /\ Len(s) >= 2 THEN <<s[2]>> \o Unescape(Tail(Tail(s)))
    ELSE <<Head(s)>> \o Unescape(Tail(s))

\* The Value of a value text the grammar accepted: a token, or a
\* quoted-string with its quotes.
ValueOfText(t) ==
    IF t # <<>> /\ Head(t) = "\""
    THEN [content |-> Unescape(SubSeq(t, 2, Len(t) - 1)), quoted |-> TRUE]
    ELSE [content |-> t, quoted |-> FALSE]

ValueEq(v, w) == v.content = w.content
ValueCmp(v, w) == CmpBytes(v.content, w.content)
ValueHash(v) == <<v.content>>
\* Display: the bare form if the content is token-safe, else the quoted form.
ValueDisplay(v) == IF IsToken(v.content) THEN v.content ELSE Quote(v.content)

\* ---------------------------------------------------------------- parser

\* Offsets are those of the code: 0-based, ranges half-open.
Slice(s, from, to) == SubSeq(s, from + 1, to)

\* The end of the maximal run of restricted-name characters from offset i.
RECURSIVE RestrictedEnd(_, _)
RestrictedEnd(s, i) ==
    IF i < Len(s) /\ IsRestrictedChar(s[i + 1]) THEN RestrictedEnd(s, i + 1) ELSE i

\* The end of the optional whitespace from offset i.
RECURSIVE OwsEnd(_, _)
OwsEnd(s, i) == IF i < Len(s) /\ s[i + 1] = " " THEN OwsEnd(s, i + 1) ELSE i

\* The offset just past the closing quote of the quoted-string whose inside
\* starts at offset i, or -1 when the input ends first.
RECURSIVE QuotedEnd(_, _)
QuotedEnd(s, i) ==
    IF i >= Len(s) THEN -1
    ELSE IF s[i + 1] = "\"" THEN i + 1
    ELSE IF s[i + 1] = "\\" THEN (IF i + 1 < Len(s) THEN QuotedEnd(s, i + 2) ELSE -1)
    ELSE QuotedEnd(s, i + 1)

\* The offset of the last "+" in the range [from, to), or -1.
RECURSIVE LastPlus(_, _, _)
LastPlus(s, from, to) ==
    IF to <= from THEN -1
    ELSE IF s[to] = "+" THEN to - 1
    ELSE LastPlus(s, from, to - 1)

ParseFailed == [ok |-> FALSE, params |-> <<>>]

\* *( ";" OWS parameter ) from offset i to the end of the input: the
\* parameters' offsets <<name start, name end, value start, value end>>.
RECURSIVE ParseParams(_, _)
ParseParams(s, i) ==
    IF i = Len(s) THEN [ok |-> TRUE, params |-> <<>>]
    ELSE
        LET semi == OwsEnd(s, i)
        IN  IF semi >= Len(s) \/ s[semi + 1] # ";" THEN ParseFailed
            ELSE
                LET n0 == OwsEnd(s, semi + 1)
                    n1 == RestrictedEnd(s, n0)
                    v0 == n1 + 1
                    v1 == IF v0 < Len(s) /\ s[v0 + 1] = "\""
                          THEN QuotedEnd(s, v0 + 1)
                          ELSE RestrictedEnd(s, v0)
                IN  IF \/ ~IsRestrictedName(Slice(s, n0, n1))
                       \/ n1 >= Len(s)
                       \/ s[n1 + 1] # "="
                       \/ v1 <= v0
                       \/ (s[v0 + 1] = "\"" /\ v1 <= v0 + 2)
                    THEN ParseFailed
                    ELSE
                        LET rest == ParseParams(s, v1)
                        IN  IF rest.ok
                            THEN [ok |-> TRUE,
                                  params |-> <<<<n0, n1, v0, v1>>>> \o rest.params]
                            ELSE ParseFailed

IndicesFailed ==
    [ok |-> FALSE, ty |-> <<0, 0>>, subty |-> <<0, 0>>, suffix |-> <<>>,
     params |-> <<>>]

\* Indices::parse: type "/" subtype ["+" suffix] *( ";" OWS parameter ).
\* The suffix is what follows the last "+" of the subtype run.
IndicesParse(s) ==
    LET t1 == RestrictedEnd(s, 0)
        r1 == RestrictedEnd(s, t1 + 1)
        plus == LastPlus(s, t1 + 1, r1)
        s1 == IF plus >= 0 THEN plus ELSE r1
    IN  IF \/ s = <<>>
           \/ t1 >= Len(s)
           \/ s[t1 + 1] # "/"
           \/ ~IsRestrictedName(Slice(s, 0, t1))
           \/ ~IsRestrictedName(Slice(s, t1 + 1, s1))
           \/ (plus >= 0 /\ ~IsRestrictedName(Slice(s, plus + 1, r1)))
        THEN IndicesFailed
        ELSE
            LET ps == ParseParams(s, r1)
            IN  IF ~ps.ok THEN IndicesFailed
                ELSE [ok |-> TRUE,
                      ty |-> <<0, t1>>,
                      subty |-> <<t1 + 1, s1>>,
                      suffix |-> IF plus >= 0 THEN <<<<plus + 1, r1>>>> ELSE <<>>,
                      params |-> ps.params]

\* ------------------------------------------------------------- MediaType

\* Option<T>: None is the empty sequence, Some(t) the sequence <<t>>.
None == <<>>
Some(t) == <<t>>

\* Cow<[(Name, Value)]>: a borrowed slice or an owned vector, each named
\* by the address of its elements in the heap.
Borrowed(addr) == [kind |-> "Borrowed", addr |-> addr]
Owned(addr) == [kind |-> "Owned", addr |-> addr]

\* The static empty slice &[] of MediaType::new.
EmptySlice == "s0"

\* MediaType::new
new(ty, subty) ==
    [ty |-> ty, subty |-> subty, suffix |-> None, params |-> Borrowed(EmptySlice)]

\* MediaType::from_parts; params is the address of the caller's slice.
from_parts(ty, subty, suffix, params) ==
    [ty |-> ty, subty |-> subty, suffix |-> suffix, params |-> Borrowed(params)]

\* The parameter vector MediaType::parse collects from the indices.
ParsedParams(s, indices) ==
    [i \in 1..Len(indices.params) |->
        LET param == indices.params[i]
        IN  <<Slice(s, param[1], param[2]), ValueOfText(Slice(s, param[3], param[4]))>>]

\* MediaType::parse: the value, with its freshly collected vector stored at
\* cell.  ok is FALSE for Err.
parse(s, h, cell) ==
    LET indices == IndicesParse(s)
    IN  IF ~indices.ok
        THEN [ok |-> FALSE, mt |-> new(<<>>, <<>>), heap |-> h]
        ELSE [ok |-> TRUE,
              mt |-> [ty |-> Slice(s, indices.ty[1], indices.ty[2]),
                      subty |-> Slice(s, indices.subty[1], indices.subty[2]),
                      suffix |-> IF indices.suffix = <<>> THEN None
                                 ELSE Some(Slice(s, indices.suffix[1][1],
                                                 indices.suffix[1][2])),
                      params |-> Owned(cell)],
              heap |-> [h EXCEPT ![cell] = ParsedParams(s, indices)]]

\* Deref of the Cow: the elements self.params refers to.
ParamsOf(mt, h) == h[mt.params.addr]

\* ReadParams::params: the entries in storage order.
params(mt, h) == ParamsOf(mt, h)

\* #[derive(Clone)]: a borrowed Cow is copied as the same reference, an
\* owned one clones its vector (into cell).
clone(mt, h, cell) ==
    IF mt.params.kind = "Borrowed"
    THEN [mt |-> mt, heap |-> h]
    ELSE [mt |-> [mt EXCEPT !.params = Owned(cell)],
          heap |-> [h EXCEPT ![cell] = h[mt.params.addr]]]

\* Mutant of to_mut: the borrowed slice itself is taken as the owned vector.
to_mut_in_place(mt, h, cell) ==
    [mt |-> [mt EXCEPT !.params = Owned(mt.params.addr)], heap |-> h]

\* Cow::to_mut: a borrowed slice is cloned into an owned vector (at cell).
to_mut(mt, h, cell) ==
    IF mt.params.kind = "Borrowed"
    THEN [mt |-> [mt EXCEPT !.params = Owned(cell)],
          heap |-> [h EXCEPT ![cell] = h[mt.params.addr]]]
    ELSE [mt |-> mt, heap |-> h]

\* ReadParams::get_param: .iter().rev().find(|p| key == p.0).map(value)
RECURSIVE RFind(_, _)
RFind(vec, key) ==
    IF vec = <<>> THEN None
    ELSE IF NameEq(key, vec[Len(vec)][1]) THEN Some(vec[Len(vec)][2])
    ELSE RFind(SubSeq(vec, 1, Len(vec) - 1), key)

\* Mutant of get_param: the scan runs forward, so the first match is returned.
RECURSIVE FFind(_, _)
FFind(vec, key) ==
    IF vec = <<>> THEN None
    ELSE IF NameEq(key, Head(vec)[1]) THEN Some(Head(vec)[2])
    ELSE FFind(Tail(vec), key)

get_param_first(mt, h, key) == FFind(h[mt.params.addr], key)

get_param(mt, h, key) == RFind(ParamsOf(mt, h), key)

\* Vec::retain(|p| key != p.0)
RECURSIVE Retain(_, _)
Retain(vec, key) ==
    IF vec = <<>> THEN <<>>
    ELSE (IF NameEq(key, Head(vec)[1]) THEN <<>> ELSE <<Head(vec)>>)
         \o Retain(Tail(vec), key)

\* Mutant of remove_params: the vector is made owned before the key is
\* looked for.
remove_params_eager(mt, h, cell, key) ==
    LET m == to_mut(mt, h, cell)
    IN  [mt |-> m.mt,
         heap |-> [m.heap EXCEPT ![m.mt.params.addr] = Retain(@, key)]]

\* Mutant of remove_params: keys are matched byte for byte.
remove_params_exact(mt, h, cell, key) ==
    LET m == to_mut(mt, h, cell)
    IN  IF \E i \in 1..Len(h[mt.params.addr]) : h[mt.params.addr][i][1] = key
        THEN [mt |-> m.mt,
              heap |-> [m.heap EXCEPT ![m.mt.params.addr] =
                            SelectSeq(@, LAMBDA e : e[1] # key)]]
        ELSE [mt |-> mt, heap |-> h]

\* WriteParams::remove_params
remove_params(mt, h, cell, key) ==
    LET key_exists == \E i \in 1..Len(ParamsOf(mt, h)) :
                          NameEq(key, ParamsOf(mt, h)[i][1])
    IN  IF key_exists
        THEN LET m == to_mut(mt, h, cell)
             IN  [mt |-> m.mt,
                  heap |-> [m.heap EXCEPT ![m.mt.params.addr] = Retain(@, key)]]
        ELSE [mt |-> mt, heap |-> h]

\* Mutant of set_param: the entry is pushed without removing the old ones.
set_param_push_only(mt, h, cell, key, value) ==
    LET m == to_mut(mt, h, cell)
    IN  [mt |-> m.mt,
         heap |-> [m.heap EXCEPT ![m.mt.params.addr] = Append(@, <<key, value>>)]]

\* WriteParams::set_param
set_param(mt, h, cell, key, value) ==
    LET r == remove_params(mt, h, cell, key)
        m == to_mut(r.mt, r.heap, cell)
    IN  [mt |-> m.mt,
         heap |-> [m.heap EXCEPT ![m.mt.params.addr] = Append(@, <<key, value>>)]]

\* Mutant of clear_params: the vector is made owned even when it is empty.
clear_params_eager(mt, h, cell) ==
    LET m == to_mut(mt, h, cell)
    IN  [mt |-> m.mt, heap |-> [m.heap EXCEPT ![m.mt.params.addr] = <<>>]]

\* WriteParams::clear_params
clear_params(mt, h, cell) ==
    IF ParamsOf(mt, h) # <<>>
    THEN LET m == to_mut(mt, h, cell)
         IN  [mt |-> m.mt, heap |-> [m.heap EXCEPT ![m.mt.params.addr] = <<>>]]
    ELSE [mt |-> mt, heap |-> h]

\* The text of the "; key=value" parts, in storage order.
RECURSIVE DisplayParams(_)
DisplayParams(vec) ==
    IF vec = <<>> THEN <<>>
    ELSE <<";", " ">> \o NameDisplay(Head(vec)[1]) \o <<"=">>
         \o ValueDisplay(Head(vec)[2]) \o DisplayParams(Tail(vec))

\* impl Display: to_string()
to_string(mt, h) ==
    NameDisplay(mt.ty) \o <<"/">> \o NameDisplay(mt.subty)
    \o (IF mt.suffix # None THEN <<"+">> \o NameDisplay(mt.suffix[1]) ELSE <<>>)
    \o DisplayParams(ParamsOf(mt, h))

\* Option<Name> equality and ordering: None is less than every Some.
OptNameEq(a, b) ==
    IF a = None \/ b = None THEN a = b ELSE NameEq(a[1], b[1])

OptNameCmp(a, b) ==
    IF a = None /\ b = None THEN Equal
    ELSE IF a = None THEN Less
    ELSE IF b = None THEN Greater
    ELSE NameCmp(a[1], b[1])

\* Iterator::eq over two Params iterators of (Name, Value) pairs.
RECURSIVE ParamsEq(_, _)
ParamsEq(p, q) ==
    IF p = <<>> \/ q = <<>> THEN p = q
    ELSE /\ NameEq(Head(p)[1], Head(q)[1])
         /\ ValueEq(Head(p)[2], Head(q)[2])
         /\ ParamsEq(Tail(p), Tail(q))

\* Iterator::cmp over two Params iterators: lexicographic, pairs compared
\* by name and then by value.
RECURSIVE ParamsCmp(_, _)
ParamsCmp(p, q) ==
    IF p = <<>> /\ q = <<>> THEN Equal
    ELSE IF p = <<>> THEN Less
    ELSE IF q = <<>> THEN Greater
    ELSE IF NameCmp(Head(p)[1], Head(q)[1]) # Equal
         THEN NameCmp(Head(p)[1], Head(q)[1])
    ELSE IF ValueCmp(Head(p)[2], Head(q)[2]) # Equal
         THEN ValueCmp(Head(p)[2], Head(q)[2])
    ELSE ParamsCmp(Tail(p), Tail(q))

\* Mutant of eq: the parameters are compared as a set of pairs.
eq_unordered(a, b, h) ==
    /\ NameEq(a.ty, b.ty)
    /\ NameEq(a.subty, b.subty)
    /\ OptNameEq(a.suffix, b.suffix)
    /\ \A e \in {h[a.params.addr][i] : i \in 1..Len(h[a.params.addr])} :
           \E f \in {h[b.params.addr][i] : i \in 1..Len(h[b.params.addr])} :
               NameEq(e[1], f[1]) /\ ValueEq(e[2], f[2])
    /\ \A f \in {h[b.params.addr][i] : i \in 1..Len(h[b.params.addr])} :
           \E e \in {h[a.params.addr][i] : i \in 1..Len(h[a.params.addr])} :
               NameEq(e[1], f[1]) /\ ValueEq(e[2], f[2])

\* impl PartialEq
eq(a, b, h) ==
    /\ NameEq(a.ty, b.ty)
    /\ NameEq(a.subty, b.subty)
    /\ OptNameEq(a.suffix, b.suffix)
    /\ ParamsEq(params(a, h), params(b, h))

\* Mutant of cmp: the suffix is left out of the comparison.
cmp_without_suffix(a, b, h) ==
    IF NameCmp(a.ty, b.ty) # Equal THEN NameCmp(a.ty, b.ty)
    ELSE IF NameCmp(a.subty, b.subty) # Equal THEN NameCmp(a.subty, b.subty)
    ELSE ParamsCmp(h[a.params.addr], h[b.params.addr])

\* impl Ord
cmp(a, b, h) ==
    IF NameCmp(a.ty, b.ty) # Equal THEN NameCmp(a.ty, b.ty)
    ELSE IF NameCmp(a.subty, b.subty) # Equal THEN NameCmp(a.subty, b.subty)
    ELSE IF OptNameCmp(a.suffix, b.suffix) # Equal
         THEN OptNameCmp(a.suffix, b.suffix)
    ELSE ParamsCmp(params(a, h), params(b, h))

\* The bytes a Hasher is fed by Option<Name>::hash: the discriminant, then
\* the name.
OptNameHash(a) == IF a = None THEN <<0>> ELSE <<1>> \o NameHash(a[1])

\* The bytes fed by hashing each (Name, Value) pair in storage order.
RECURSIVE ParamsHash(_)
ParamsHash(vec) ==
    IF vec = <<>> THEN <<>>
    ELSE NameHash(Head(vec)[1]) \o ValueHash(Head(vec)[2]) \o ParamsHash(Tail(vec))

\* Mutant of hash: the serialized text is what the Hasher is fed.
hash_of_text(mt, h) == <<to_string(mt, h)>>

\* impl Hash: everything the Hasher is fed, in order.
hash(mt, h) ==
    NameHash(mt.ty) \o NameHash(mt.subty) \o OptNameHash(mt.suffix)
    \o ParamsHash(params(mt, h))

\* ----------------------------------------------------------------- state

\* The program holds up to two MediaType values, x and y.  heap maps the
\* address of every parameter sequence to its elements: the callers' static
\* slices, and the vector each value owns once its Cow is owned.
VARIABLES mt, live, heap, last

vars == <<mt, live, heap, last>>

Slots == {"x", "y"}
Other(who) == IF who = "x" THEN "y" ELSE "x"
\* Where the vector owned by a value is allocated.
Cell(who) == IF who = "x" THEN "vx" ELSE "vy"

Na == <<"a">>
NA == <<"A">>
Nb == <<"b">>
Nc == <<"c">>
Nj == <<"j">>
NJ == <<"J">>
Nk == <<"k">>
NK == <<"K">>
Nbc == <<"b", "+", "c">>

V1 == [content |-> <<"1">>, quoted |-> FALSE]
V2 == [content |-> <<"2">>, quoted |-> FALSE]
Va == [content |-> <<"a">>, quoted |-> FALSE]
VA == [content |-> <<"A">>, quoted |-> FALSE]
\* "1" written as a quoted-string, and contents that are no token.
V1q == [content |-> <<"1">>, quoted |-> TRUE]
Vsp == [content |-> <<"a", " ">>, quoted |-> TRUE]
Vesc == [content |-> <<"\"", "\\">>, quoted |-> TRUE]
ValueList == <<V1, Vsp, V2>>

\* How many of the values of ValueList set_param is called with.
NumValues == 2

\* The keys and values the operations are called with.
Keys == {Nk, NK}
\* The keys remove_params and get_param are called with: Nc is in no storage.
ReadKeys == Keys \cup {Nc}
Values == {ValueList[i] : i \in 1..NumValues}

\* The callers' static slices: one with a repeated key, one with two
\* repeated keys interleaved.
Slice1 == <<<<Nk, V1>>, <<NK, V2>>>>
Slice2 == <<<<Nj, V1>>, <<Nk, V2>>, <<Nj, V2>>, <<NK, V1>>>>
\* The same two parameters in both orders, in other spellings, and with a
\* value that differs in case only.
Slice3 == <<<<Nk, Vsp>>, <<Nj, V1>>>>
Slice4 == <<<<Nj, V1>>, <<Nk, Vsp>>>>
Slice5 == <<<<NK, Vsp>>, <<NJ, V1q>>>>
Slice6 == <<<<Nk, Va>>, <<Nj, Vesc>>>>
Slice7 == <<<<Nk, VA>>, <<Nj, Vesc>>>>
StaticSlices == {"s0", "s1", "s2"}
MoreSlices == {"s3", "s4", "s5", "s6", "s7"}

Heap0 ==
    ("s0" :> <<>>) @@ ("s1" :> Slice1) @@ ("s2" :> Slice2)
    @@ ("s3" :> Slice3) @@ ("s4" :> Slice4) @@ ("s5" :> Slice5)
    @@ ("s6" :> Slice6) @@ ("s7" :> Slice7)
    @@ ("vx" :> <<>>) @@ ("vy" :> <<>>)

\* "a/b+c; K=1; j=2; k=1"
Text1 ==
    <<"a", "/", "b", "+", "c", ";", " ", "K", "=", "1", ";", " ",
      "j", "=", "2", ";", " ", "k", "=", "1">>
\* "A/B; k=2; k=1"
Text2 == <<"A", "/", "B", ";", " ", "k", "=", "2", ";", " ", "k", "=", "1">>

\* "a/b; k=\"a \"; j=1"
Text3 ==
    <<"a", "/", "b", ";", " ", "k", "=", "\"", "a", " ", "\"", ";", " ",
      "j", "=", "1">>

\* A slot that holds no value.
Unset == new(<<>>, <<>>)

Snapshot(m, l, h) == [mt |-> m, live |-> l, heap |-> h]

NoOp(m, h) ==
    [op |-> "init", who |-> "x", key |-> None, value |-> None,
     pre |-> Snapshot(m, {"x"}, h), ret |-> None]

\* The state after x was constructed by constructor result c (a value and
\* the heap it left).
Constructed(c) ==
    /\ mt = [w \in Slots |-> IF w = "x" THEN c.mt ELSE Unset]
    /\ live = {"x"}
    /\ heap = c.heap
    /\ last = NoOp(mt, heap)

\* A call of a constructor: which one, and its arguments.
CallNew(ty, subty) ==
    [fn |-> "new", ty |-> ty, subty |-> subty, suffix |-> None,
     slice |-> EmptySlice, text |-> <<>>]
CallFromParts(ty, subty, suffix, slice) ==
    [fn |-> "from_parts", ty |-> ty, subty |-> subty, suffix |-> suffix,
     slice |-> slice, text |-> <<>>]
CallParse(text) ==
    [fn |-> "parse", ty |-> <<>>, subty |-> <<>>, suffix |-> None,
     slice |-> EmptySlice, text |-> text]

\* The value the call c constructs, with the heap it leaves.
Build(c, h, cell) ==
    CASE c.fn = "new" ->
           [ok |-> TRUE, mt |-> new(c.ty, c.subty), heap |-> h]
      [] c.fn = "from_parts" ->
           [ok |-> TRUE, mt |-> from_parts(c.ty, c.subty, c.suffix, c.slice),
            heap |-> h]
      [] c.fn = "parse" -> parse(c.text, h, cell)

\* The constructor calls x starts from.
Calls ==
    {CallNew(Na, Nb)}
    \cup {CallFromParts(Na, Nb, Some(Nc), slice) : slice \in StaticSlices}
    \cup {CallParse(Text1), CallParse(Text2)}

\* x after MediaType::new, MediaType::from_parts or MediaType::parse.
Init ==
    \E c \in Calls :
        /\ Build(c, Heap0, Cell("x")).ok
        /\ Constructed(Build(c, Heap0, Cell("x")))

\* The state after operation op on slot who left result r.
Step(op, who, key, value, r, ret) ==
    /\ mt' = [mt EXCEPT ![who] = r.mt]
    /\ heap' = r.heap
    /\ last' = [op |-> op, who |-> who, key |-> key, value |-> value,
                pre |-> Snapshot(mt, live, heap), ret |-> ret]

\* let y = x.clone();
Clone ==
    /\ live = {"x"}
    /\ Step("clone", "y", None, None, clone(mt["x"], heap, Cell("y")), None)
    /\ live' = Slots

\* let y = MediaType::from_parts(.., slice);
FromParts(slice) ==
    /\ live = {"x"}
    /\ Step("from_parts", "y", None, None,
            [mt |-> from_parts(Nb, Na, None, slice), heap |-> heap], None)
    /\ live' = Slots

SetParam(who, key, value) ==
    /\ who \in live
    /\ Step("set_param", who, Some(key), Some(value),
            set_param(mt[who], heap, Cell(who), key, value), None)
    /\ UNCHANGED live

RemoveParams(who, key) ==
    /\ who \in live
    /\ Step("remove_params", who, Some(key), None,
            remove_params(mt[who], heap, Cell(who), key), None)
    /\ UNCHANGED live

ClearParams(who) ==
    /\ who \in live
    /\ Step("clear_params", who, None, None,
            clear_params(mt[who], heap, Cell(who)), None)
    /\ UNCHANGED live

GetParam(who, key) ==
    /\ who \in live
    /\ Step("get_param", who, Some(key), None,
            [mt |-> mt[who], heap |-> heap], get_param(mt[who], heap, key))
    /\ UNCHANGED live

Next ==
    \/ Clone
    \/ \E slice \in StaticSlices : FromParts(slice)
    \/ \E who \in Slots, key \in Keys, value \in Values : SetParam(who, key, value)
    \/ \E who \in Slots, key \in ReadKeys : RemoveParams(who, key)
    \/ \E who \in Slots : ClearParams(who)
    \/ \E who \in Slots, key \in ReadKeys : GetParam(who, key)

Spec == Init /\ [][Next]_vars

\* ---- the round trip through text

\* The constructor calls whose value is serialized and parsed back.  No
\* suffix holds a "+": where the parser splits a subtype run with several
\* "+" then plays no part.
RoundTripCalls ==
    {CallNew(ty, subty) : ty \in {Na, NA}, subty \in {Nb, Nbc}}
    \cup {CallFromParts(Na, subty, suffix, slice) :
              subty \in {Nb, Nbc}, suffix \in {None, Some(Nc)},
              slice \in {"s1", "s3", "s6"}}
    \cup {CallParse(Text1), CallParse(Text3)}

InitRoundTrip ==
    \E c \in RoundTripCalls :
        /\ Build(c, Heap0, Cell("x")).ok
        /\ Constructed(Build(c, Heap0, Cell("x")))

\* let s = x.to_string(); let y = MediaType::parse(&s);
RoundTrip ==
    LET s == to_string(mt["x"], heap)
        r == parse(s, heap, Cell("y"))
    IN  /\ Step("roundtrip", "y", None, None,
                IF r.ok THEN r ELSE [mt |-> mt["y"], heap |-> heap],
                [text |-> s, ok |-> r.ok])
        /\ live' = IF r.ok THEN Slots ELSE live

NextRoundTrip ==
    \/ \E key \in Keys, value \in Values : SetParam("x", key, value)
    \/ \E key \in ReadKeys : RemoveParams("x", key)
    \/ ClearParams("x")
    \/ RoundTrip

SpecRoundTrip == InitRoundTrip /\ [][NextRoundTrip]_vars

\* ---- equality, ordering and hashing of two values

\* The constructor calls of the values compared.
CompareCalls ==
    {CallFromParts(ty, subty, suffix, slice) :
        ty \in {Na, NA, Nb}, subty \in {Na, Nb},
        suffix \in {None, Some(Nc), Some(<<"C">>)},
        slice \in {"s0"} \cup MoreSlices}
    \cup {CallNew(Na, Nb), CallParse(Text2), CallParse(Text3)}

InitCompare ==
    \E c \in CompareCalls :
        /\ Build(c, Heap0, Cell("x")).ok
        /\ Constructed(Build(c, Heap0, Cell("x")))

\* let y = MediaType::new(..) / from_parts(..) / parse(..)?;
Construct(d) ==
    /\ live = {"x"}
    /\ Build(d, heap, Cell("y")).ok
    /\ Step("construct", "y", None, None, Build(d, heap, Cell("y")), None)
    /\ live' = Slots

\* x == y, x.cmp(&y), y.cmp(&x), and the hashes of x and of y.
Compare ==
    /\ live = Slots
    /\ Step("compare", "x", None, None, [mt |-> mt["x"], heap |-> heap],
            [eq |-> eq(mt["x"], mt["y"], heap),
             cmp_xy |-> cmp(mt["x"], mt["y"], heap),
             cmp_yx |-> cmp(mt["y"], mt["x"], heap),
             hash_x |-> hash(mt["x"], heap),
             hash_y |-> hash(mt["y"], heap)])
    /\ UNCHANGED live

NextCompare ==
    \/ \E d \in CompareCalls : Construct(d)
    \/ Compare

SpecCompare == InitCompare /\ [][NextCompare]_vars

\* ---------------------------------------------------------------- claims

\* What the claims speak of, stated without the operations' own helpers.

\* The positions of vec whose key is key up to ASCII case.
Matching(vec, key) == {i \in 1..Len(vec) : LowerStr(vec[i][1]) = LowerStr(key)}

\* vec without the entries whose key is key up to ASCII case.
Without(vec, key) == SelectSeq(vec, LAMBDA e : LowerStr(e[1]) # LowerStr(key))

Max(S) == CHOOSE n \in S : \A m \in S : m <= n

\* No two entries of vec share a key up to ASCII case.
NoDuplicateKeys(vec) ==
    \A i, j \in 1..Len(vec) : i # j => LowerStr(vec[i][1]) # LowerStr(vec[j][1])

\* The storage of slot who before and after the last operation.
Before(who) == last.pre.heap[last.pre.mt[who].params.addr]
After(who) == heap[mt[who].params.addr]

\* C3: get_param(key) returns the value of the last entry in storage order
\* whose key equals key case-insensitively, None exactly when there is no
\* such entry, and leaves the values and the storage as they were.
C3_GetParamLastMatch ==
    last.op = "get_param" =>
        LET vec == Before(last.who)
            hits == Matching(vec, last.key[1])
        IN  /\ (hits = {}) <=> (last.ret = None)
            /\ hits # {} => last.ret = Some(vec[Max(hits)][2])
            /\ mt = last.pre.mt
            /\ heap = last.pre.heap

\* get_param on storage holding the key twice with different values.
C3_Witness ==
    /\ last.op = "get_param"
    /\ \E i, j \in Matching(Before(last.who), last.key[1]) :
           i < j /\ Before(last.who)[i][2] # Before(last.who)[j][2]

\* C4: after set_param(key, value) the storage is the previous storage
\* without the entries matching key, in their order, followed by the one
\* entry (key, value).
C4_SetParamReplaces ==
    last.op = "set_param" =>
        /\ After(last.who)
             = Without(Before(last.who), last.key[1])
               \o << <<last.key[1], last.value[1]>> >>
        /\ Matching(After(last.who), last.key[1]) = {Len(After(last.who))}

\* set_param of a key stored twice, with other entries before and between,
\* giving it a value other than the one stored last.
C4_Witness ==
    /\ last.op = "set_param"
    /\ Cardinality(Matching(Before(last.who), last.key[1])) >= 2
    /\ Len(Without(Before(last.who), last.key[1])) >= 2
    /\ After(last.who)[Len(After(last.who))][2] # Before(last.who)[Len(Before(last.who))][2]

\* C5 as claimed: after any set_param no two entries of the storage share
\* a case-insensitively equal key.
C5_NoDuplicatesAfterSetParam ==
    last.op = "set_param" => NoDuplicateKeys(After(last.who))

\* C5 as amended: after set_param(key, value) exactly one entry has a key
\* equal to key case-insensitively; repeated keys other than key are kept,
\* so the storage is free of duplicates exactly when its entries under the
\* other keys were.
C5_SetParamCollapsesItsKey ==
    last.op = "set_param" =>
        /\ Cardinality(Matching(After(last.who), last.key[1])) = 1
        /\ NoDuplicateKeys(After(last.who))
             <=> NoDuplicateKeys(Without(Before(last.who), last.key[1]))

\* set_param on storage that repeats the key set and another key.
C5_Witness ==
    /\ last.op = "set_param"
    /\ Cardinality(Matching(Before(last.who), last.key[1])) >= 2
    /\ ~NoDuplicateKeys(After(last.who))

\* C6: remove_params(key) with no entry matching key changes nothing, the
\* serialized output included, and does not turn borrowed storage into an
\* owned copy; with a matching entry it removes every matching entry and
\* keeps the others in their order.
C6_RemoveParams ==
    last.op = "remove_params" =>
        IF Matching(Before(last.who), last.key[1]) = {}
        THEN /\ mt = last.pre.mt
             /\ heap = last.pre.heap
             /\ to_string(mt[last.who], heap)
                  = to_string(last.pre.mt[last.who], last.pre.heap)
        ELSE /\ After(last.who) = Without(Before(last.who), last.key[1])
             /\ Matching(After(last.who), last.key[1]) = {}

\* remove_params of a key stored in two spellings between other entries.
C6_Witness ==
    /\ last.op = "remove_params"
    /\ \E i, j \in Matching(Before(last.who), last.key[1]) :
           Before(last.who)[i][1] # Before(last.who)[j][1]
    /\ Len(After(last.who)) >= 2

\* C7: clear_params leaves the storage empty and ty, subty and suffix as
\* they were; a second call changes nothing; on empty storage it does not
\* turn borrowed storage into an owned copy.
C7_ClearParams ==
    last.op = "clear_params" =>
        /\ After(last.who) = <<>>
        /\ mt[last.who].ty = last.pre.mt[last.who].ty
        /\ mt[last.who].subty = last.pre.mt[last.who].subty
        /\ mt[last.who].suffix = last.pre.mt[last.who].suffix
        /\ clear_params(mt[last.who], heap, Cell(last.who))
             = [mt |-> mt[last.who], heap |-> heap]
        /\ Before(last.who) = <<>> => (mt = last.pre.mt /\ heap = last.pre.heap)

\* clear_params on a value with a suffix and stored parameters.
C7_Witness ==
    /\ last.op = "clear_params"
    /\ Before(last.who) # <<>>
    /\ mt[last.who].suffix # None

\* C8: a set_param, remove_params or clear_params on one of two values
\* leaves the other's parameter sequence, its get_param results and its
\* serialized output unchanged, also when the two shared one sequence.
C8_CopyOnWriteIsolation ==
    (last.op \in {"set_param", "remove_params", "clear_params"}
     /\ Other(last.who) \in last.pre.live) =>
        LET o == Other(last.who)
        IN  /\ After(o) = Before(o)
            /\ \A key \in ReadKeys \cup {Nj} :
                   get_param(mt[o], heap, key)
                     = get_param(last.pre.mt[o], last.pre.heap, key)
            /\ to_string(mt[o], heap) = to_string(last.pre.mt[o], last.pre.heap)

\* A mutation that changed the storage of a value which shared its
\* non-empty sequence with the other value.
C8_Witness ==
    /\ last.op \in {"set_param", "remove_params", "clear_params"}
    /\ Other(last.who) \in last.pre.live
    /\ last.pre.mt["x"].params = last.pre.mt["y"].params
    /\ Before(last.who) # <<>>
    /\ After(last.who) # Before(last.who)

\* The two values compared, and their parameter sequences.
X == mt["x"]
Y == mt["y"]

\* C1: for every value x built by new, from_parts or parse and then changed
\* by set_param, remove_params and clear_params, parse(x.to_string())
\* succeeds and returns a value equal to x.
C1_RoundTrip ==
    last.op = "roundtrip" => (last.ret.ok /\ eq(Y, X, heap))

\* Two names are the same up to ASCII case.
SameName(a, b) == LowerStr(a) = LowerStr(b)

\* Equality as the claim states it: field by field, then position by
\* position of the two parameter sequences p and q.
EqualAsStated(a, b, p, q) ==
    /\ SameName(a.ty, b.ty)
    /\ SameName(a.subty, b.subty)
    /\ \/ a.suffix = None /\ b.suffix = None
       \/ a.suffix # None /\ b.suffix # None /\ SameName(a.suffix[1], b.suffix[1])
    /\ Len(p) = Len(q)
    /\ \A i \in 1..Len(p) :
           i <= Len(q) => (SameName(p[i][1], q[i][1]) /\ p[i][2].content = q[i][2].content)

\* q holds the entries of p, up to the case of the keys.
SameEntries(p, q) ==
    /\ Len(p) = Len(q)
    /\ \A i \in 1..Len(p) : \E j \in 1..Len(q) :
           SameName(p[i][1], q[j][1]) /\ p[i][2].content = q[j][2].content

\* C2: two values are equal exactly when ty, subty and suffix are equal as
\* Names and the parameter sequences have the same length and, at every
\* position, equal keys (as Names) and equal values (case-sensitively); the
\* same parameters in another order are not equal, and borrowed or owned
\* storage makes no difference.
C2_Equality ==
    last.op = "compare" =>
        last.ret.eq <=> EqualAsStated(X, Y, After("x"), After("y"))

\* Two values with equal fields and the same two parameters in a different
\* order, found unequal.
C2_Witness ==
    /\ last.op = "compare"
    /\ SameName(X.ty, Y.ty) /\ SameName(X.subty, Y.subty) /\ X.suffix = Y.suffix
    /\ Len(After("x")) = 2
    /\ SameEntries(After("x"), After("y"))
    /\ ~SameName(After("x")[1][1], After("y")[1][1])
    /\ ~last.ret.eq

\* C9: if a == b then hash(a) == hash(b): the Hasher is fed the same bytes.
C9_HashConsistentWithEq ==
    last.op = "compare" => (last.ret.eq => last.ret.hash_x = last.ret.hash_y)

\* Two equal values whose names differ in case and of which one borrows its
\* parameters and the other owns them.
C9_Witness ==
    /\ last.op = "compare"
    /\ last.ret.eq
    /\ X.ty # Y.ty
    /\ X.params.kind # Y.params.kind
    /\ After("x") # <<>>

\* The values a third operand of cmp is drawn from.
Thirds ==
    {from_parts(ty, Nb, suffix, slice) :
        ty \in {Na, NA, Nb}, suffix \in {None, Some(Nc)},
        slice \in {"s0", "s3", "s4", "s5", "s7"}}

\* The first component comparison that is not Equal, Equal if there is none.
FirstDecided(cs) ==
    IF \A i \in 1..Len(cs) : cs[i] = Equal THEN Equal
    ELSE cs[CHOOSE i \in 1..Len(cs) :
                cs[i] # Equal /\ \A j \in 1..(i - 1) : cs[j] = Equal]

\* C10: cmp orders values lexicographically by (ty, subty, suffix,
\* parameter sequence); it is Equal exactly for equal values, cmp(b, a) is
\* the reverse of cmp(a, b), and cmp is transitive.
C10_TotalOrder ==
    last.op = "compare" =>
        /\ last.ret.cmp_xy
             = FirstDecided(<<NameCmp(X.ty, Y.ty), NameCmp(X.subty, Y.subty),
                              OptNameCmp(X.suffix, Y.suffix),
                              ParamsCmp(After("x"), After("y"))>>)
        /\ (last.ret.cmp_xy = Equal) <=> last.ret.eq
        /\ last.ret.cmp_yx = 0 - last.ret.cmp_xy
        /\ \A z \in Thirds :
               (last.ret.cmp_xy # Greater /\ cmp(Y, z, heap) # Greater)
                   => cmp(X, z, heap) # Greater

\* Two values that differ in the suffix only, compared as unequal although
\* ty and subty are spelled in different case.
C10_Witness ==
    /\ last.op = "compare"
    /\ X.ty # Y.ty /\ SameName(X.ty, Y.ty) /\ SameName(X.subty, Y.subty)
    /\ X.suffix = None /\ Y.suffix # None
    /\ After("x") = After("y") /\ After("x") # <<>>
    /\ last.ret.cmp_xy = Less

====
